---- MODULE Spec2Model ----
(***************************************************************************)
(* evhz_sdl2.cpp: per-class input event frequency tracking (processEvent), *)
(* the periodic report (logEventData) and the SDL driver loop (main).      *)
(*                                                                         *)
(* Numbers.  TLC's integers are 32-bit signed, so a uint32_t that may      *)
(* exceed 2^31-1 (the delta of line 82 after wraparound) is carried as two *)
(* 16-bit limbs.  Timestamps themselves are drawn from small sets and are  *)
(* plain naturals.  A double is modelled as the exact rational it stands   *)
(* for, in lowest terms: rounding of the 53-bit mantissa is not modelled.  *)
(* Arithmetic on doubles other than the division of line 82 (the sums and  *)
(* comparisons of logEventData, the text conversion of operator<<) needs   *)
(* operands below 2^31 and is only evaluated on such values.               *)
(***************************************************************************)
EXTENDS Integers, Sequences, FiniteSets, TLC

VARIABLES
    events,     \* std::map<TimedEventType, EventData> events (main, line 120)
    cout,       \* the lines written to std::cout by the latest logEventData call
    sentinel,   \* std::atomic<bool> sentinel (line 55)
    loopy,      \* loopy (line 146)
    pc,         \* where main is: "loop" (148), "poll" (150), "render" (187), "done" (200)
    fed,        \* history: per class, the timestamps passed to processEvent so far
    last,       \* history: the latest operation, its arguments and the registry before it
    polled,     \* history: e.type of the event SDL_PollEvent handed out last (SpecDrain)
    iters       \* history: the loop iterations begun since the latest logEventData call

vars == <<events, cout, sentinel, loopy, pc, fed, last, polled, iters>>

----------------------------------------------------------------------------
(* Types and constants of the program *)

event_data_freq_array_size == 64

TimedEventType == {"Keyboard", "Mouse"}

\* The enumerators' values: std::map iterates its keys in this order.
TimedEventTypeValue(t) == IF t = "Keyboard" THEN 0 ELSE 1

TimedEventTypeToString(t) ==
    CASE t = "Keyboard" -> "Keyboard"
      [] t = "Mouse"    -> "Mouse"
      [] OTHER          -> "Unknown"

----------------------------------------------------------------------------
(* uint32_t as two 16-bit limbs *)

Limb == 2^16

\* The limbs of a natural below 2^31.
W32(n) == [hi |-> n \div Limb, lo |-> n % Limb]

\* The value of a word below 2^31.
W32Int(w) == w.hi * Limb + w.lo

\* w mod m for a small m.
W32Mod(w, m) == ((w.hi % m) * (Limb % m) + w.lo) % m

\* w / g for a small g that divides w.
W32Div(w, g) == [hi |-> w.hi \div g, lo |-> ((w.hi % g) * Limb + w.lo) \div g]

\* Faulty variant of UInt32Sub: the magnitude of the difference instead of the
\* wrapped difference.
UInt32SubAbs(a, b) == IF a >= b THEN W32(a - b) ELSE W32(b - a)

\* a - b in uint32_t arithmetic (modulo 2^32), for naturals a, b below 2^31:
\* a negative difference -n wraps to 2^32 - n = (2^32 - 1) - (n - 1).
UInt32Sub(a, b) ==
    IF a >= b
    THEN W32(a - b)
    ELSE [hi |-> (Limb - 1) - ((b - a - 1) \div Limb),
          lo |-> (Limb - 1) - ((b - a - 1) % Limb)]

----------------------------------------------------------------------------
(* double as an exact rational num/den in lowest terms, den a uint32 word *)

RECURSIVE GCD(_, _)
GCD(a, b) == IF b = 0 THEN a ELSE GCD(b, a % b)

Rat(n, d) == LET g == GCD(n, d) IN [num |-> n \div g, den |-> W32(d \div g)]

\* 0.f / 0.0
Zero == Rat(0, 1)

\* Faulty variant of Hz: the period's reciprocal in events per millisecond.
HzPerMs(delta) == [num |-> 1, den |-> delta]

\* 1000.0 / static_cast<double>(delta), delta a non-zero uint32 word.
Hz(delta) ==
    LET g == GCD(1000, W32Mod(delta, 1000))
    IN  [num |-> 1000 \div g, den |-> W32Div(delta, g)]

DAdd(a, b) ==
    Rat(a.num * W32Int(b.den) + b.num * W32Int(a.den), W32Int(a.den) * W32Int(b.den))

DLess(a, b) == a.num * W32Int(b.den) < b.num * W32Int(a.den)

\* std::max(a, b): b when a < b, else a.
DMax(a, b) == IF DLess(a, b) THEN b ELSE a

\* a / n for a container size n > 0.
DDivSize(a, n) == Rat(a.num, W32Int(a.den) * n)

Last(s) == s[Len(s)]

----------------------------------------------------------------------------
(* EventData and processEvent *)

\* A default-constructed EventData (lines 47-53).
EventData == [timestamps |-> <<>>, freq_array |-> <<>>, average_freq |-> Zero]

\* events[t] (line 68): operator[] inserts a default EventData for a new key.
Subscript(ev, t) == IF t \in DOMAIN ev THEN ev ELSE ev @@ (t :> EventData)

\* Faulty variant of EraseBegin: the newest element is dropped instead of the oldest.
EraseBack(s) == SubSeq(s, 1, Len(s) - 1)

\* vector::erase(begin()).
EraseBegin(s) == Tail(s)

\* Faulty variant of Evict: the loop runs while the size is at least the bound.
RECURSIVE EvictFromFull(_)
EvictFromFull(v) ==
    IF Len(v.freq_array) >= event_data_freq_array_size
    THEN EvictFromFull([v EXCEPT !.freq_array = EraseBegin(@),
                                 !.timestamps = EraseBegin(@)])
    ELSE v

\* Faulty variant of Evict: the loop erases from freq_array only.
RECURSIVE EvictFreqOnly(_)
EvictFreqOnly(v) ==
    IF Len(v.freq_array) > event_data_freq_array_size
    THEN EvictFreqOnly([v EXCEPT !.freq_array = EraseBegin(@)])
    ELSE v

\* The while loop of lines 87-91.
RECURSIVE Evict(_)
Evict(v) ==
    IF Len(v.freq_array) > event_data_freq_array_size
    THEN Evict([v EXCEPT !.freq_array = EraseBegin(@),
                         !.timestamps = EraseBegin(@)])
    ELSE v

\* Faulty variant of IsDuplicate: the timestamp is compared with the oldest of the
\* window.
IsDuplicateOfFront(v, ts) == v.timestamps # <<>> /\ ts = Head(v.timestamps)

\* Faulty variant of IsDuplicate: no event is taken for a duplicate.
NeverDuplicate(v, ts) == FALSE

\* The test of line 70.
IsDuplicate(v, ts) == v.timestamps # <<>> /\ ts = Last(v.timestamps)

\* Faulty variant of NewFrequency: the delta is taken from the oldest timestamp of
\* the window.
NewFrequencyFromFront(v, ts) ==
    IF v.freq_array = <<>>
    THEN Zero
    ELSE Hz(UInt32Sub(ts, Head(v.timestamps)))

\* Faulty variant of NewFrequency: no sentinel; a missing previous timestamp counts
\* as 0.
NewFrequencyNoSentinel(v, ts) ==
    Hz(UInt32Sub(ts, IF v.timestamps = <<>> THEN 0 ELSE Last(v.timestamps)))

\* The value pushed on freq_array (lines 76-84).
NewFrequency(v, ts) ==
    IF v.freq_array = <<>>
    THEN Zero
    ELSE Hz(UInt32Sub(ts, Last(v.timestamps)))

\* Faulty variant of processEvent: the entry of the first enumerator is used whatever
\* t is.
processEventFirstKey(t, ts, ev) ==
    LET m == Subscript(ev, "Keyboard")
        v == m["Keyboard"]
    IN  IF IsDuplicate(v, ts)
        THEN m
        ELSE [m EXCEPT !["Keyboard"] =
                Evict([v EXCEPT !.freq_array = Append(@, NewFrequency(v, ts)),
                                !.timestamps = Append(@, ts)])]

\* processEvent(t, e, events) with e.common.timestamp = ts: the registry after
\* the call (lines 66-92).
processEvent(t, ts, ev) ==
    LET m == Subscript(ev, t)
        v == m[t]
    IN  IF IsDuplicate(v, ts)
        THEN m
        ELSE [m EXCEPT ![t] =
                Evict([v EXCEPT !.freq_array = Append(@, NewFrequency(v, ts)),
                                !.timestamps = Append(@, ts)])]

----------------------------------------------------------------------------
(* logEventData *)

RECURSIVE Exp10(_, _)
\* The decimal exponent of n/d > 0: the X with 10^X <= n/d < 10^(X+1).
Exp10(n, d) ==
    IF n >= d * 10 THEN Exp10(n, d * 10) + 1
    ELSE IF n < d THEN Exp10(n * 10, d) - 1
    ELSE 0

\* n/d rounded to the nearest integer, a tie to the even one.
RoundHalfEven(n, d) ==
    LET q == n \div d
        r == n % d
    IN  IF 2 * r > d \/ (2 * r = d /\ q % 2 = 1) THEN q + 1 ELSE q

RECURSIVE StripZeros(_, _)
\* m * 10^e without the trailing zeros of m.
StripZeros(m, e) == IF m % 10 = 0 THEN StripZeros(m \div 10, e + 1) ELSE [mant |-> m, exp |-> e]

\* std::cout << x for a double x >= 0 (line 109): the stream's defaults, i.e.
\* six significant digits, no trailing zeros, scientific notation when the
\* decimal exponent is below -4 or at least 6.  The text is given by its
\* digits: it reads mant * 10^exp.
OstreamDouble(x) ==
    IF x.num = 0
    THEN [mant |-> 0, exp |-> 0, sci |-> FALSE]
    ELSE LET n == x.num
             d == W32Int(x.den)
             X == Exp10(n, d)
             m == IF X <= 5 THEN RoundHalfEven(n * 10^(5 - X), d)
                            ELSE RoundHalfEven(n, d * 10^(X - 5))
             Y == IF m = 10^6 THEN X + 1 ELSE X
             s == StripZeros(IF m = 10^6 THEN 10^5 ELSE m, Y - 5)
         IN  [mant |-> s.mant, exp |-> s.exp, sci |-> Y < -4 \/ Y >= 6]

\* Faulty variant of MapOrder: the keys in descending order.
RECURSIVE MapOrderDescending(_)
MapOrderDescending(keys) ==
    IF keys = {}
    THEN <<>>
    ELSE LET k == CHOOSE k \in keys :
                    \A j \in keys : TimedEventTypeValue(k) >= TimedEventTypeValue(j)
         IN  <<k>> \o MapOrderDescending(keys \ {k})

\* The keys of a std::map in iteration order: ascending enumerator value.
RECURSIVE MapOrder(_)
MapOrder(keys) ==
    IF keys = {}
    THEN <<>>
    ELSE LET k == CHOOSE k \in keys :
                    \A j \in keys : TimedEventTypeValue(k) <= TimedEventTypeValue(j)
         IN  <<k>> \o MapOrder(keys \ {k})

\* The loop of lines 103-107 over freq_array, from avgF = maxF = 0.
RECURSIVE Accumulate(_, _)
Accumulate(f, acc) ==
    IF f = <<>>
    THEN acc
    ELSE Accumulate(Tail(f), [avgF |-> DAdd(acc.avgF, Head(f)),
                              maxF |-> DMax(acc.maxF, Head(f))])

\* Faulty variant of LogLine: the sentinel at the front of a window that still holds
\* it is left out of maximum and mean.
LogLineSkipSentinel(t, e) ==
    LET f == IF Head(e.freq_array) = Zero THEN Tail(e.freq_array) ELSE e.freq_array
        s == Accumulate(f, [avgF |-> Zero, maxF |-> Zero])
    IN  [Type |-> TimedEventTypeToString(t),
         Max  |-> OstreamDouble(s.maxF),
         Avg  |-> OstreamDouble(IF f = <<>> THEN Zero ELSE DDivSize(s.avgF, Len(f)))]

\* The line written for one map entry with a non-empty freq_array (lines 99-109).
LogLine(t, e) ==
    LET s == Accumulate(e.freq_array, [avgF |-> Zero, maxF |-> Zero])
    IN  [Type |-> TimedEventTypeToString(t),
         Max  |-> OstreamDouble(s.maxF),
         Avg  |-> OstreamDouble(DDivSize(s.avgF, Len(e.freq_array)))]

\* The lines logEventData writes, visiting the entries in `order` (lines 96-111).
RECURSIVE LogLines(_, _)
LogLines(ev, order) ==
    IF order = <<>>
    THEN <<>>
    ELSE (IF ev[Head(order)].freq_array # <<>>
          THEN <<LogLine(Head(order), ev[Head(order)])>>
          ELSE <<>>) \o LogLines(ev, Tail(order))

\* Faulty variant of logEventData: the loop runs over the enumerators, looks each up
\* with events[t] and writes its line without the test of line 101.
logEventDataEveryType(ev) ==
    [i \in 1..2 |->
        LET t == IF i = 1 THEN "Keyboard" ELSE "Mouse"
            e == Subscript(ev, t)[t]
        IN  IF e.freq_array # <<>>
            THEN LogLine(t, e)
            ELSE [Type |-> TimedEventTypeToString(t),
                  Max  |-> OstreamDouble(Zero),
                  Avg  |-> OstreamDouble(Zero)]]

\* The text logEventData(events) writes to std::cout.
logEventData(ev) == LogLines(ev, MapOrder(DOMAIN ev))

\* Faulty variant of LoggedRegistry: every enumerator is looked up with events[t],
\* which inserts an empty entry for a class that has none.
LoggedRegistryInsertsEvery(ev) == Subscript(Subscript(ev, "Keyboard"), "Mouse")

\* Faulty variant of LoggedRegistry: the mean is stored in average_freq of each entry.
LoggedRegistryStoresAverage(ev) ==
    [t \in DOMAIN ev |->
        IF ev[t].freq_array = <<>> THEN ev[t]
        ELSE [ev[t] EXCEPT !.average_freq =
                DDivSize(Accumulate(ev[t].freq_array,
                                    [avgF |-> Zero, maxF |-> Zero]).avgF,
                         Len(ev[t].freq_array))]]

\* The registry after logEventData(events): the function takes the map by
\* non-const reference but only reads it (lines 96-111).
LoggedRegistry(ev) == ev

----------------------------------------------------------------------------
(* The operations as steps *)

NoOp == [op |-> "none", type |-> "none", ts |-> 0, flag |-> FALSE, before |-> <<>>]

\* A call processEvent(t, e, events) with e.common.timestamp = ts.
Record(t, ts) ==
    /\ events' = processEvent(t, ts, events)
    /\ last' = [op |-> "processEvent", type |-> t, ts |-> ts, flag |-> sentinel,
                before |-> events]

\* A call logEventData(events).
Report ==
    /\ cout' = logEventData(events)
    /\ events' = LoggedRegistry(events)
    /\ last' = [op |-> "logEventData", type |-> "none", ts |-> 0, flag |-> sentinel,
                before |-> events]
    /\ iters' = 0

\* The program at the first test of the loop condition (line 148): an empty
\* registry, nothing written, the flag zero-initialised, loopy = 0.
Init ==
    /\ events = <<>>
    /\ cout = <<>>
    /\ sentinel = FALSE
    /\ loopy = 0
    /\ pc = "loop"
    /\ fed = [t \in TimedEventType |-> <<>>]
    /\ last = NoOp
    /\ polled = "none"
    /\ iters = 0

Fed(t, ts) == fed' = [fed EXCEPT ![t] = Append(@, ts)]

Calls == Len(fed["Keyboard"]) + Len(fed["Mouse"])

----------------------------------------------------------------------------
(* SpecAny: processEvent called with any class and any timestamp, in any    *)
(* order (duplicates and out-of-order timestamps included).                 *)

MaxCalls == 4

AnyTimes == {0, 10, 30, 1000, 1010}

AnyRecord ==
    /\ Calls < MaxCalls
    /\ \E t \in TimedEventType, ts \in AnyTimes : Record(t, ts) /\ Fed(t, ts)
    /\ UNCHANGED <<cout, sentinel, loopy, pc, polled, iters>>

NextAny == AnyRecord

SpecAny == Init /\ [][NextAny]_vars

----------------------------------------------------------------------------
(* SpecCore: processEvent and logEventData called in any order, the         *)
(* timestamps of each class non-decreasing.                                 *)

CoreTimes == {0, 10, 30, 40}

CoreRecord ==
    /\ Calls < MaxCalls
    /\ \E t \in TimedEventType, ts \in CoreTimes :
          /\ fed[t] # <<>> => ts >= Last(fed[t])
          /\ Record(t, ts)
          /\ Fed(t, ts)
    /\ UNCHANGED <<cout, sentinel, loopy, pc, polled, iters>>

CoreReport ==
    /\ Report
    /\ UNCHANGED <<sentinel, loopy, pc, fed, polled>>

NextCore == CoreRecord \/ CoreReport

SpecCore == Init /\ [][NextCore]_vars

----------------------------------------------------------------------------
(* SpecWin: a class fed a long periodic stream, long enough for its window *)
(* to fill and evict, while the other class gets at most WinShort events.   *)
(* A stream starts at one of WinStart and repeats one of the step patterns: *)
(* strictly increasing ones, ones with duplicates (step 0) and ones with    *)
(* out-of-order timestamps (negative steps).                                *)

WinCalls == 100

WinShort == 1

WinStart == {0, 1000}

WinPatterns ==
    {<<1>>, <<10>>, <<10, 20>>, <<1, 2, 3>>, <<5, 0>>, <<10, 0, 20>>, <<7, -3>>,
     <<0, 4, -1, -1>>}

\* The step after the n-th timestamp of a stream with pattern p.
Step(p, n) == p[((n - 1) % Len(p)) + 1]

\* Whether f is the beginning of the stream from s with pattern p.
IsStream(p, s, f) ==
    /\ f # <<>> => f[1] = s
    /\ \A i \in 2..Len(f) : f[i] = f[i - 1] + Step(p, i - 1)

WinRecord ==
    \E t \in TimedEventType, s \in WinStart, p \in WinPatterns :
        /\ Len(fed[t]) < WinCalls
        /\ \A u \in TimedEventType \ {t} :
              Len(fed[t]) < WinShort \/ Len(fed[u]) <= WinShort
        /\ IsStream(p, s, fed[t])
        /\ LET ts == IF fed[t] = <<>> THEN s ELSE Last(fed[t]) + Step(p, Len(fed[t]))
           IN  Record(t, ts) /\ Fed(t, ts)
        /\ UNCHANGED <<cout, sentinel, loopy, pc, polled, iters>>

NextWin == WinRecord

SpecWin == Init /\ [][NextWin]_vars

----------------------------------------------------------------------------
(* Spec: main's loop (lines 146-200), with SIGINT arriving at any time.     *)
(* SDL_PollEvent pumps the platform's events and hands out the oldest, or   *)
(* returns 0 when none is left.  SDL stamps an event with its millisecond   *)
(* clock when the event is queued, so the timestamps handed to processEvent *)
(* never decrease; the timestamps of events that are not recorded are never *)
(* read (lines 154-156, 167-168) and are left out.                          *)

MaxTicks == 1

KeyboardEvents == {"SDL_KEYDOWN", "SDL_KEYUP"}

MouseEvents == {"SDL_MOUSEMOTION", "SDL_MOUSEBUTTONDOWN", "SDL_MOUSEBUTTONUP", "SDL_MOUSEWHEEL"}

\* Event types the switch of lines 152-183 has no case for.
OtherEvents == {"SDL_QUIT", "SDL_JOYAXISMOTION", "SDL_CONTROLLERBUTTONDOWN"}

WindowEventIDs == {"SDL_WINDOWEVENT_CLOSE", "SDL_WINDOWEVENT_EXPOSED"}

\* The timestamps a newly polled event may carry: from the latest recorded
\* one on, up to the bound.
Ticks ==
    LET seen == {Last(events[t].timestamps) : t \in DOMAIN events}
    IN  {ts \in 0..MaxTicks : \A x \in seen : ts >= x}

\* on_signal_int (lines 56-59); the handler is installed at line 116.
on_signal_int ==
    /\ pc # "done"
    /\ sentinel' = TRUE
    /\ UNCHANGED <<events, cout, loopy, pc, fed, last, polled, iters>>

\* Faulty variant of processWindowEvent: the flag is assigned the outcome of the test.
processWindowEventAssign(id, flag) == id = "SDL_WINDOWEVENT_CLOSE"

\* The sentinel after processWindowEvent(e) with e.window.event = id (line 63).
processWindowEvent(id, flag) == IF id = "SDL_WINDOWEVENT_CLOSE" THEN TRUE ELSE flag

\* while(!sentinel), line 148: enter the body, or leave for SDL_Quit and return.
LoopTest ==
    /\ pc = "loop"
    /\ pc' = IF ~sentinel THEN "poll" ELSE "done"
    /\ iters' = IF ~sentinel THEN iters + 1 ELSE iters
    /\ UNCHANGED <<events, cout, sentinel, loopy, fed, last, polled>>

\* Every event type of the model: the case labels of the switch and the rest.
SDL_EventTypes == {"SDL_WINDOWEVENT"} \cup KeyboardEvents \cup MouseEvents \cup OtherEvents

\* Faulty variant of Case: the label SDL_MOUSEWHEEL is missing.
CaseNoWheel(type) ==
    CASE type = "SDL_WINDOWEVENT" -> "SDL_WINDOWEVENT"
      [] type \in KeyboardEvents -> "Keyboard"
      [] type \in MouseEvents \ {"SDL_MOUSEWHEEL"} -> "Mouse"
      [] OTHER -> "default"

\* switch(e.type), lines 152-183: the case an event of the given type takes.
Case(type) ==
    CASE type = "SDL_WINDOWEVENT" -> "SDL_WINDOWEVENT"
      [] type \in KeyboardEvents -> "Keyboard"
      [] type \in MouseEvents -> "Mouse"
      [] OTHER -> "default"

\* The body of the inner loop (lines 151-184) for a polled event of the given
\* type: a window event (lines 154-156), a key event (157-160), a mouse
\* event (161-166), any other (167-168).
Poll(type) ==
    /\ pc = "poll"
    /\ \/ /\ Case(type) = "SDL_WINDOWEVENT"
          /\ \E id \in WindowEventIDs :
                /\ sentinel' = processWindowEvent(id, sentinel)
                /\ last' = [op |-> "processWindowEvent", type |-> id, ts |-> 0,
                            flag |-> sentinel, before |-> events]
          /\ UNCHANGED events
       \/ /\ Case(type) \in TimedEventType
          /\ \E ts \in Ticks : Record(Case(type), ts)
          /\ UNCHANGED sentinel
       \/ /\ Case(type) = "default"
          /\ last' = [op |-> "default", type |-> "none", ts |-> 0, flag |-> sentinel,
                      before |-> events]
          /\ UNCHANGED <<events, sentinel>>
    /\ UNCHANGED <<cout, loopy, pc, fed, iters>>

\* SDL_PollEvent hands out a window event (lines 154-156).
PollWindowEvent ==
    \E type \in SDL_EventTypes :
        Case(type) = "SDL_WINDOWEVENT" /\ Poll(type) /\ UNCHANGED polled

\* SDL_PollEvent hands out a key event (lines 157-160).
PollKeyboardEvent ==
    \E type \in SDL_EventTypes :
        Case(type) = "Keyboard" /\ Poll(type) /\ UNCHANGED polled

\* SDL_PollEvent hands out a mouse event (lines 161-166).
PollMouseEvent ==
    \E type \in SDL_EventTypes :
        Case(type) = "Mouse" /\ Poll(type) /\ UNCHANGED polled

\* SDL_PollEvent hands out an event of another type (lines 167-168).
PollOtherEvent ==
    \E type \in SDL_EventTypes :
        Case(type) = "default" /\ Poll(type) /\ UNCHANGED polled

\* SDL_PollEvent returns 0: the inner loop of line 150 ends.
PollNone ==
    /\ pc = "poll"
    /\ pc' = "render"
    /\ UNCHANGED <<events, cout, sentinel, loopy, fed, last, polled, iters>>

\* Lines 187-197 in an iteration that does not report.
RenderOnly ==
    /\ pc = "render"
    /\ (loopy + 1) % 200 # 0
    /\ loopy' = loopy + 1
    /\ pc' = "loop"
    /\ UNCHANGED <<events, cout, sentinel, fed, last, polled, iters>>

\* Faulty variant of RenderReport: the counter is advanced and the report written
\* inside the inner loop, after an event has been handled.
RenderReportInDrain ==
    /\ pc = "poll"
    /\ (loopy + 1) % 200 = 0
    /\ Report
    /\ loopy' = 0
    /\ pc' = "loop"
    /\ UNCHANGED <<sentinel, fed, polled>>

\* Faulty variant of RenderReport: loopy is not reset after the report.
RenderReportNoReset ==
    /\ pc = "render"
    /\ (loopy + 1) % 200 = 0
    /\ Report
    /\ loopy' = loopy + 1
    /\ pc' = "loop"
    /\ UNCHANGED <<sentinel, fed, polled>>

\* Lines 187-197 in an iteration that reports.
RenderReport ==
    /\ pc = "render"
    /\ (loopy + 1) % 200 = 0
    /\ Report
    /\ loopy' = 0
    /\ pc' = "loop"
    /\ UNCHANGED <<sentinel, fed, polled>>

Next ==
    \/ on_signal_int
    \/ LoopTest
    \/ PollWindowEvent
    \/ PollKeyboardEvent
    \/ PollMouseEvent
    \/ PollOtherEvent
    \/ PollNone
    \/ RenderOnly
    \/ RenderReport

Spec == Init /\ [][Next]_vars

----------------------------------------------------------------------------
(* SpecDrain: the first pass of the inner loop of line 150, the type of the *)
(* event handed out last kept in polled.                                    *)

PollEvent == \E type \in SDL_EventTypes : Poll(type) /\ polled' = type

NextDrain == LoopTest \/ PollEvent \/ PollNone

SpecDrain == Init /\ [][NextDrain]_vars

----------------------------------------------------------------------------
(* Vocabulary of the claims *)

\* The call just made was processEvent(t, ...) on a registry holding t.
Recorded(t) == last.op = "processEvent" /\ last.type = t /\ t \in DOMAIN last.before

\* timestamps and freq_array of every class are as they were before the call.
WindowsUnchanged ==
    /\ DOMAIN events = DOMAIN last.before
    /\ \A u \in DOMAIN events :
          /\ events[u].timestamps = last.before[u].timestamps
          /\ events[u].freq_array = last.before[u].freq_array

StrictlyIncreasing(f) == \A i \in 2..Len(f) : f[i - 1] < f[i]

Min(a, b) == IF a <= b THEN a ELSE b

\* The last k elements of f.
Newest(f, k) == SubSeq(f, Len(f) - k + 1, Len(f))

RECURSIVE Alone(_, _)
\* The registry obtained by feeding the timestamps f of class t, and nothing
\* else, to a fresh registry.
Alone(t, f) ==
    IF f = <<>> THEN <<>>
    ELSE processEvent(t, Last(f), Alone(t, SubSeq(f, 1, Len(f) - 1)))

----------------------------------------------------------------------------
(* The claims *)

\* C1 (SpecAny): a processEvent call for a class whose window is non-empty,
\* with the timestamp equal to the last one stored for the class, leaves the
\* timestamps and frequencies of every class as they were.
C1_DuplicateSuppressed ==
    \A t \in TimedEventType :
        (/\ Recorded(t)
         /\ last.before[t].timestamps # <<>>
         /\ last.ts = Last(last.before[t].timestamps))
        => WindowsUnchanged

\* C1 witness: a duplicate arrived for a class holding two samples while the
\* other class is registered too.
C1_Witness ==
    /\ Recorded("Mouse")
    /\ Len(last.before["Mouse"].timestamps) = 2
    /\ last.ts = Last(last.before["Mouse"].timestamps)
    /\ "Keyboard" \in DOMAIN events

\* C2 (SpecWin): after n calls with strictly increasing timestamps on a class,
\* timestamps and frequencies both have min(n, 64) elements and timestamps
\* holds the min(n, 64) newest timestamps in arrival order.
C2_WindowFifo ==
    \A t \in DOMAIN events :
        StrictlyIncreasing(fed[t]) =>
            LET k == Min(Len(fed[t]), 64)
            IN  /\ Len(events[t].timestamps) = k
                /\ Len(events[t].freq_array) = k
                /\ events[t].timestamps = Newest(fed[t], k)

\* C2 witness: 100 calls with strictly increasing timestamps, of unequal
\* steps, were made; the window holds 64 samples.
C2_Witness ==
    \E t \in DOMAIN events :
        /\ StrictlyIncreasing(fed[t])
        /\ Len(fed[t]) = 100
        /\ fed[t][3] - fed[t][2] # fed[t][2] - fed[t][1]
        /\ Len(events[t].timestamps) = 64
        /\ Len(events[t].freq_array) = 64

\* C3 (SpecWin): for every class in the registry timestamps and frequencies
\* have the same length, at most 64, whatever the timestamps were.
C3_ParallelSequences ==
    \A t \in DOMAIN events :
        /\ Len(events[t].timestamps) = Len(events[t].freq_array)
        /\ Len(events[t].timestamps) <= 64

\* C3 witness: a stream with duplicates and out-of-order timestamps has
\* filled the window and evicted, the other class being registered too.
C3_Witness ==
    \E t \in DOMAIN events :
        /\ \E i \in 2..Len(fed[t]) : fed[t][i] = fed[t][i - 1]
        /\ \E i \in 2..Len(fed[t]) : fed[t][i] < fed[t][i - 1]
        /\ Len(events[t].timestamps) = 64
        /\ events[t].timestamps[1] # fed[t][1]
        /\ DOMAIN events = TimedEventType

\* C4 (SpecAny): a processEvent call for a class whose window is non-empty,
\* with a timestamp greater than the last stored one, appends exactly one
\* frequency, 1000 / (timestamp - last stored timestamp).
C4_FrequencyFormula ==
    \A t \in TimedEventType :
        (/\ Recorded(t)
         /\ last.before[t].timestamps # <<>>
         /\ last.ts > Last(last.before[t].timestamps))
        => events[t].freq_array =
              Append(last.before[t].freq_array,
                     Rat(1000, last.ts - Last(last.before[t].timestamps)))

\* C4 witness: processEvent(C, 1000) then processEvent(C, 1010) appended 100.
C4_Witness ==
    \E t \in DOMAIN events :
        /\ Recorded(t)
        /\ last.ts = 1010
        /\ events[t].timestamps = <<1000, 1010>>
        /\ events[t].freq_array = <<Rat(0, 1), Rat(100, 1)>>

\* C5 (SpecAny): the first processEvent call for a class without an entry
\* creates the entry with exactly one timestamp, the given one, and exactly
\* one frequency, 0.
C5_FirstSample ==
    \A t \in TimedEventType :
        (last.op = "processEvent" /\ last.type = t /\ t \notin DOMAIN last.before)
        => /\ DOMAIN events = DOMAIN last.before \cup {t}
           /\ events[t].timestamps = <<last.ts>>
           /\ events[t].freq_array = <<Rat(0, 1)>>

\* C5 witness: the first event of a class carried timestamp 0.
C5_Witness ==
    /\ last.op = "processEvent"
    /\ last.type \notin DOMAIN last.before
    /\ last.ts = 0
    /\ events[last.type].freq_array = <<Rat(0, 1)>>

\* C6 (SpecAny): a processEvent call for one class leaves the window of the
\* other class as it was, and the window of each class is the one obtained
\* by feeding that class's events alone.
C6_ClassesIndependent ==
    /\ \A t \in TimedEventType :
          last.op = "processEvent" /\ last.type = t
          => \A u \in TimedEventType \ {t} :
                /\ u \in DOMAIN events <=> u \in DOMAIN last.before
                /\ u \in DOMAIN events => events[u] = last.before[u]
    /\ \A t \in TimedEventType :
          /\ t \in DOMAIN events <=> fed[t] # <<>>
          /\ t \in DOMAIN events => events[t] = Alone(t, fed[t])[t]

\* C6 witness: Keyboard and Mouse events were interleaved, two of each.
C6_Witness ==
    /\ Len(fed["Keyboard"]) = 2
    /\ Len(fed["Mouse"]) = 2
    /\ Len(events["Keyboard"].timestamps) = 2
    /\ Len(events["Mouse"].timestamps) = 2
    /\ events["Keyboard"].timestamps # events["Mouse"].timestamps
    /\ last.type = "Keyboard"
    /\ DOMAIN last.before = TimedEventType
    /\ Len(last.before["Mouse"].timestamps) = 2
    /\ Len(last.before["Keyboard"].timestamps) = 1

\* The elements of a sequence.
Range(f) == {f[i] : i \in 1..Len(f)}

\* The greatest element of a non-empty sequence of doubles.
MaxOf(f) == CHOOSE x \in Range(f) : \A y \in Range(f) : ~DLess(x, y)

RECURSIVE SumOf(_)
SumOf(f) == IF f = <<>> THEN Rat(0, 1) ELSE DAdd(SumOf(SubSeq(f, 1, Len(f) - 1)), Last(f))

MeanOf(f) == DDivSize(SumOf(f), Len(f))

\* The written number r (digits mant, decimal exponent exp) is exactly the
\* double x.
ReadsAs(r, x) ==
    IF r.exp >= 0
    THEN r.mant * 10^r.exp * W32Int(x.den) = x.num
    ELSE r.mant * W32Int(x.den) = x.num * 10^(-r.exp)

\* The written number r is the double x, 0 <= x < 1000000, rounded to six
\* significant digits with the trailing zeros dropped: r has at most six
\* digits, the last not 0, and differs from x by at most half a unit of the
\* sixth significant digit of x.
SixDigitsOf(r, x) ==
    IF x.num = 0
    THEN r = [mant |-> 0, exp |-> 0, sci |-> FALSE]
    ELSE LET n == x.num
             d == W32Int(x.den)
             E == CHOOSE k \in 0..5 : 10^k * d <= n /\ n < 10^(k + 1) * d
             a == n * 10^(5 - E)
             b == r.mant * 10^(r.exp - E + 5) * d
         IN  /\ r.mant \in 1..999999
             /\ r.mant % 10 # 0
             /\ r.exp >= E - 5
             /\ ~r.sci
             /\ 2 * (IF a >= b THEN a - b ELSE b - a) <= d

\* The lines of cout written for class t.
LinesOf(t) == {i \in 1..Len(cout) : cout[i].Type = t}

\* C7 as stated (SpecCore): logEventData reports, for every class with a
\* non-empty window, the maximum of the frequencies in the window and
\* sum(frequencies) / len(frequencies).
C7_ReportsExactMeanMax ==
    last.op = "logEventData" =>
        \A t \in DOMAIN events :
            events[t].freq_array # <<>> =>
                \E i \in LinesOf(t) :
                    /\ ReadsAs(cout[i].Max, MaxOf(events[t].freq_array))
                    /\ ReadsAs(cout[i].Avg, MeanOf(events[t].freq_array))

\* C7 amended (SpecCore): logEventData reports, for every class with a
\* non-empty window, the maximum of the frequencies in the window and
\* sum(frequencies) / len(frequencies), the sentinel 0 counted in both, each
\* rounded to six significant digits.
C7_ReportsRoundedMeanMax ==
    last.op = "logEventData" =>
        \A t \in DOMAIN events :
            events[t].freq_array # <<>> =>
                \E i \in LinesOf(t) :
                    /\ SixDigitsOf(cout[i].Max, MaxOf(events[t].freq_array))
                    /\ SixDigitsOf(cout[i].Avg, MeanOf(events[t].freq_array))

\* C7 witness: the window [0, 100, 50, 100] was reported as Max 100, Avg 62.5.
C7_Witness ==
    /\ last.op = "logEventData"
    /\ "Mouse" \in DOMAIN events
    /\ events["Mouse"].freq_array = <<Rat(0, 1), Rat(100, 1), Rat(50, 1), Rat(100, 1)>>
    /\ \E i \in LinesOf("Mouse") :
          /\ cout[i].Max = [mant |-> 1, exp |-> 2, sci |-> FALSE]
          /\ cout[i].Avg = [mant |-> 625, exp |-> -1, sci |-> FALSE]

\* C8 (SpecCore): logEventData writes exactly one line for each class with at
\* least one recorded sample and none for any other class; for an empty
\* registry it writes nothing.
C8_ReportOmission ==
    last.op = "logEventData" =>
        /\ \A t \in TimedEventType :
              Cardinality(LinesOf(t)) =
                  IF t \in DOMAIN events /\ events[t].freq_array # <<>> THEN 1 ELSE 0
        /\ \A i \in 1..Len(cout) : cout[i].Type \in TimedEventType
        /\ events = <<>> => cout = <<>>

\* C8 witness: only Mouse had samples, and the report is one Mouse line.
C8_Witness ==
    /\ last.op = "logEventData"
    /\ DOMAIN events = {"Mouse"}
    /\ Len(events["Mouse"].freq_array) = 2
    /\ Len(cout) = 1
    /\ cout[1].Type = "Mouse"

\* C9 (SpecCore): logEventData leaves the registry as it was, so a second
\* call right after it writes the same lines.
C9_ReportReadOnly ==
    last.op = "logEventData" =>
        /\ events = last.before
        /\ cout = logEventData(last.before)
        /\ logEventData(events) = cout

\* C9 witness: a report of two classes was written.
C9_Witness ==
    /\ last.op = "logEventData"
    /\ DOMAIN events = TimedEventType
    /\ Len(cout) = 2
    /\ Len(events["Keyboard"].freq_array) = 2

\* C10 (Spec): the stop flag is never cleared; main leaves the loop only at
\* the test of the loop condition, with the flag set; with the flag set the
\* test starts no further iteration; an iteration under way goes on through
\* its drain and its rendering whatever the flag is, and reports when the
\* report is due.
C10_CooperativeShutdown ==
    [][/\ sentinel => sentinel'
       /\ (pc # "done" /\ pc' = "done") => (pc = "loop" /\ sentinel)
       /\ (pc = "loop" /\ sentinel) => pc' \in {"loop", "done"}
       /\ (pc = "loop" /\ ~sentinel) => pc' \in {"loop", "poll"}
       /\ pc = "poll" => pc' \in {"poll", "render"}
       /\ pc = "render" => pc' \in {"render", "loop"}
       /\ (pc = "render" /\ pc' = "loop") =>
             IF (loopy + 1) % 200 = 0
             THEN /\ last'.op = "logEventData"
                  /\ last'.flag = sentinel
                  /\ cout' = logEventData(events)
                  /\ loopy' = 0
             ELSE /\ loopy' = loopy + 1
                  /\ cout' = cout
       /\ pc = "done" => pc' = "done"
      ]_vars

\* C10 witness: the flag was set during a drain, a mouse event polled after
\* that was still recorded as the second sample of its class, the drain and
\* the rendering ended and main left the loop at the next test.
C10_Witness ==
    /\ pc = "done"
    /\ sentinel
    /\ last.op = "processEvent"
    /\ last.type = "Mouse"
    /\ last.flag
    /\ "Mouse" \in DOMAIN last.before
    /\ Len(last.before["Mouse"].timestamps) = 1
    /\ Len(events["Mouse"].timestamps) = 2

\* The double x is 1000 / D for D = 2^32 - n, n a positive int: the numerator of x
\* divides 1000 and, with g = 1000 / numerator, denominator * g + n adds up
\* to 2^32, limb by limb.
IsThousandOverWrapped(x, n) ==
    /\ x.num > 0
    /\ 1000 % x.num = 0
    /\ LET g   == 1000 \div x.num
           low == x.den.lo * g + n
       IN  /\ low % 2^16 = 0
           /\ x.den.hi * g + low \div 2^16 = 2^16

\* The double x is 1000 / ((a - b) mod 2^32), for timestamps a # b.
IsHzOf(x, a, b) ==
    IF a > b THEN x = Rat(1000, a - b)
    ELSE a < b /\ IsThousandOverWrapped(x, b - a)

\* C11 (SpecAny): a processEvent call with a timestamp smaller than the last
\* stored one of its class appends the timestamp and one frequency,
\* 1000 / ((timestamp - last stored timestamp) mod 2^32).
C11_OutOfOrderAccepted ==
    \A t \in TimedEventType :
        (/\ Recorded(t)
         /\ last.before[t].timestamps # <<>>
         /\ last.ts < Last(last.before[t].timestamps))
        => /\ events[t].timestamps = Append(last.before[t].timestamps, last.ts)
           /\ Len(events[t].freq_array) = Len(last.before[t].freq_array) + 1
           /\ SubSeq(events[t].freq_array, 1, Len(last.before[t].freq_array))
                 = last.before[t].freq_array
           /\ IsThousandOverWrapped(Last(events[t].freq_array),
                                    Last(last.before[t].timestamps) - last.ts)

\* C11 witness: timestamp 0 arrived after 1000: the frequency appended is
\* 1000 / (2^32 - 1000) = 125 / 536870787.
C11_Witness ==
    \E t \in DOMAIN events :
        /\ Recorded(t)
        /\ events[t].timestamps = <<1000, 0>>
        /\ Last(events[t].freq_array) = [num |-> 125, den |-> [hi |-> 8191, lo |-> 65411]]

\* The class has the entry it had before the latest operation, or none as before.
EntryUnchanged(u) ==
    /\ u \in DOMAIN events <=> u \in DOMAIN last.before
    /\ u \in DOMAIN events => events[u] = last.before[u]

\* C12 (SpecDrain): a key-down or key-up is recorded under Keyboard and only
\* there, a mouse motion, button-down, button-up or wheel event under Mouse
\* and only there, and an event of any other type leaves the registry as it
\* was.
C12_Classification ==
    /\ polled \in {"SDL_KEYDOWN", "SDL_KEYUP"}
          => /\ last.op = "processEvent" /\ last.type = "Keyboard"
             /\ events = processEvent("Keyboard", last.ts, last.before)
             /\ EntryUnchanged("Mouse")
    /\ polled \in {"SDL_MOUSEMOTION", "SDL_MOUSEBUTTONDOWN", "SDL_MOUSEBUTTONUP",
                   "SDL_MOUSEWHEEL"}
          => /\ last.op = "processEvent" /\ last.type = "Mouse"
             /\ events = processEvent("Mouse", last.ts, last.before)
             /\ EntryUnchanged("Keyboard")
    /\ polled \in {"SDL_WINDOWEVENT", "SDL_QUIT", "SDL_JOYAXISMOTION",
                   "SDL_CONTROLLERBUTTONDOWN"}
          => /\ last.op \in {"processWindowEvent", "default"}
             /\ events = last.before

\* C12 witness: a joystick event polled after a key and a mouse wheel event
\* were recorded left both windows as they were.
C12_Witness ==
    /\ polled = "SDL_JOYAXISMOTION"
    /\ DOMAIN events = TimedEventType
    /\ events = last.before

\* C13 (Spec): logEventData is called at the end of the 200th loop iteration
\* since the previous call (or since the start) and at no other step, and
\* loopy is within 0..199 whenever an iteration ends: the call resets it.
C13_ReportCadence ==
    [][/\ iters' < iters
          => /\ iters = 200
             /\ pc = "render" /\ pc' = "loop"
             /\ loopy' = 0
             /\ last'.op = "logEventData"
       /\ (pc = "render" /\ pc' = "loop" /\ iters = 200) => iters' = 0
       /\ iters' <= 200
       /\ pc' \in {"loop", "done"} => loopy' \in 0..199 /\ iters' = loopy'
      ]_vars

\* C13 witness: the 200th iteration has just ended with a report on events
\* recorded meanwhile, and loopy is 0 again.
C13_Witness ==
    /\ pc = "loop"
    /\ loopy = 0
    /\ iters = 0
    /\ last.op = "logEventData"
    /\ DOMAIN events = TimedEventType
    /\ Len(cout) = 2

\* C14 (SpecWin): in every window, each frequency but the first is 1000 over
\* the difference (modulo 2^32) of its timestamp and the one before it,
\* duplicates having been dropped and old samples evicted or not.
C14_AdjacentPairs ==
    \A t \in DOMAIN events :
        LET ts == events[t].timestamps
            fr == events[t].freq_array
        IN  /\ Len(fr) = Len(ts)
            /\ \A i \in 2..Len(ts) : IsHzOf(fr[i], ts[i], ts[i - 1])

\* C14 witness: 0, 10, 10, 30 passed for Mouse gave timestamps 0, 10, 30 and
\* frequencies 0, 100, 50.
C14_Witness ==
    /\ fed["Mouse"] = <<0, 10, 10, 30>>
    /\ events["Mouse"].timestamps = <<0, 10, 30>>
    /\ events["Mouse"].freq_array = <<Zero, Rat(100, 1), Rat(50, 1)>>

\* The positions in f of the timestamps processEvent accepted: those that
\* differ from the timestamp passed before them.
AcceptedAt(f) == {i \in 1..Len(f) : i = 1 \/ f[i] # f[i - 1]}

\* The k-th accepted timestamp of f.
NthAccepted(f, k) ==
    f[CHOOSE i \in AcceptedAt(f) : Cardinality({j \in AcceptedAt(f) : j <= i}) = k]

\* C15 (SpecWin): the first frequency of a window is the sentinel 0 exactly
\* while the class has had at most 64 samples accepted; from the 65th on, the
\* first frequency is the one computed when the now-oldest sample was
\* recorded and every frequency of the window is strictly positive.
C15_SentinelUntilEviction ==
    \A t \in DOMAIN events :
        LET n  == Cardinality(AcceptedAt(fed[t]))
            fr == events[t].freq_array
        IN  /\ fr # <<>>
            /\ n <= 64 <=> fr[1] = Zero
            /\ n > 64 =>
                  /\ \A i \in 1..Len(fr) : fr[i].num > 0
                  /\ events[t].timestamps[1] = NthAccepted(fed[t], n - 63)
                  /\ IsHzOf(fr[1], NthAccepted(fed[t], n - 63),
                                   NthAccepted(fed[t], n - 64))

\* C15 witness: the 65th accepted sample has just evicted the sentinel.
C15_Witness ==
    \E t \in DOMAIN events :
        /\ Recorded(t)
        /\ Cardinality(AcceptedAt(fed[t])) = 65
        /\ Len(last.before[t].freq_array) = 64
        /\ last.before[t].freq_array[1] = Zero
        /\ events[t].freq_array[1] # Zero

\* C16 (Spec): logEventData is only called once the inner loop has ended
\* (SDL_PollEvent returned 0), never during it; the registry it reads is the
\* complete outcome of the latest processEvent call, with timestamps and
\* freq_array of every class of equal length, at most 64.
C16_ReportBetweenDrains ==
    [][iters' < iters
          => /\ pc = "render"
             /\ last'.op = "logEventData"
             /\ last'.before = events
             /\ cout' = logEventData(events)
             /\ last.op = "processEvent"
                   => events = processEvent(last.type, last.ts, last.before)
             /\ \A t \in DOMAIN events :
                   /\ Len(events[t].timestamps) = Len(events[t].freq_array)
                   /\ Len(events[t].timestamps) <= 64
      ]_vars

\* C16 witness: a report was written from a registry holding the events of
\* both classes drained before it.
C16_Witness ==
    /\ last.op = "logEventData"
    /\ iters = 0
    /\ DOMAIN last.before = TimedEventType
    /\ \A t \in TimedEventType : Len(last.before[t].timestamps) = 2
    /\ cout = logEventData(last.before)

\* C17 (Spec): a report has at most one line per class, the Keyboard line
\* before the Mouse line, whichever class had its first event first.
C17_ReportOrder ==
    last.op = "logEventData"
    => /\ Len(cout) <= 2
       /\ \A i \in 1..Len(cout) : cout[i].Type \in {"Keyboard", "Mouse"}
       /\ \A i, j \in 1..Len(cout) :
             i < j => cout[i].Type = "Keyboard" /\ cout[j].Type = "Mouse"

\* C17 witness: Mouse had its first event at tick 0 and Keyboard only at
\* tick 1 (the ticks polled never decrease), and the report has the Keyboard
\* line first.
C17_Witness ==
    /\ last.op = "logEventData"
    /\ DOMAIN last.before = TimedEventType
    /\ last.before["Mouse"].timestamps[1] = 0
    /\ last.before["Keyboard"].timestamps[1] = 1
    /\ Len(cout) = 2
    /\ cout[1].Type = "Keyboard"
    /\ cout[2].Type = "Mouse"

\* C18 (SpecAny): the division of line 82 never has a zero divisor: a call
\* that appends a frequency to a non-empty window has a timestamp whose
\* difference (modulo 2^32) to the last stored one is not 0; hence no two
\* adjacent timestamps of a window are equal and no frequency is a quotient
\* by 0.
C18_NoZeroDelta ==
    /\ \A t \in TimedEventType :
          (/\ Recorded(t)
           /\ last.before[t].timestamps # <<>>
           /\ Len(events[t].freq_array) # Len(last.before[t].freq_array))
          => /\ last.ts # Last(last.before[t].timestamps)
             /\ UInt32Sub(last.ts, Last(last.before[t].timestamps)) # W32(0)
    /\ \A t \in DOMAIN events :
          /\ \A i \in 2..Len(events[t].timestamps) :
                events[t].timestamps[i] # events[t].timestamps[i - 1]
          /\ \A i \in 1..Len(events[t].freq_array) :
                events[t].freq_array[i].den # W32(0)

\* C18 witness: after 10 and a dropped second 10, the smaller timestamp 0
\* reached the division, with the delta 2^32 - 10.
C18_Witness ==
    \E t \in DOMAIN events :
        /\ Recorded(t)
        /\ fed[t] = <<10, 10, 0>>
        /\ events[t].timestamps = <<10, 0>>
        /\ UInt32Sub(0, 10) = [hi |-> 65535, lo |-> 65526]
        /\ Len(events[t].freq_array) = 2

\* C19 (SpecCore): every class the registry has an entry for has at least
\* one timestamp and one frequency, the classes with an entry are those that
\* were passed an event, and each report has a line for every one of them.
C19_EntriesNeverEmpty ==
    /\ \A t \in DOMAIN events :
          events[t].timestamps # <<>> /\ events[t].freq_array # <<>>
    /\ DOMAIN events = {t \in TimedEventType : fed[t] # <<>>}
    /\ last.op = "logEventData"
          => \A t \in TimedEventType :
                fed[t] # <<>> => \E i \in 1..Len(cout) : cout[i].Type = t

\* C19 witness: a report written after Mouse alone was passed events, a
\* duplicate among them, has the Mouse line and no other.
C19_Witness ==
    /\ last.op = "logEventData"
    /\ fed["Keyboard"] = <<>>
    /\ fed["Mouse"] = <<10, 10, 30>>
    /\ DOMAIN events = {"Mouse"}
    /\ Len(cout) = 1
    /\ cout[1].Type = "Mouse"

\* C20 (SpecWin): no processEvent call shortens a window: a duplicate leaves
\* its length, an accepted timestamp adds one element to a window of fewer
\* than 64 and replaces exactly the oldest element of a window of 64; so the
\* length is the number of timestamps accepted so far, up to 64, and stays 64
\* once it got there.
C20_LengthMonotone ==
    /\ \A t \in DOMAIN events :
          Len(events[t].timestamps) = Min(Cardinality(AcceptedAt(fed[t])), 64)
    /\ last.op = "processEvent"
          => LET t   == last.type
                 old == IF t \in DOMAIN last.before
                        THEN last.before[t].timestamps ELSE <<>>
                 new == events[t].timestamps
                 dup == old # <<>> /\ last.ts = Last(old)
             IN  /\ Len(new) >= Len(old)
                 /\ dup => new = old
                 /\ (~dup /\ Len(old) < 64) => new = Append(old, last.ts)
                 /\ (~dup /\ Len(old) >= 64) => new = Append(Tail(old), last.ts)
                 /\ \A u \in TimedEventType \ {t} : EntryUnchanged(u)

\* C20 witness: a window that has been at 64 for several accepted timestamps
\* is still at 64 after one more, which replaced the oldest.
C20_Witness ==
    \E t \in DOMAIN events :
        /\ Recorded(t)
        /\ Cardinality(AcceptedAt(fed[t])) >= 70
        /\ last.ts # Last(last.before[t].timestamps)
        /\ Len(last.before[t].timestamps) = 64
        /\ Len(events[t].timestamps) = 64
        /\ events[t].timestamps[1] = last.before[t].timestamps[2]

====
